---- MODULE Spec2Model ----
(***************************************************************************)
(* The risk-scoring configuration editor of glide-in, in its two versions: *)
(*   "local": src/src/pages/RiskConfiguration.tsx (seeded state, saveRules *)
(*            writes localStorage);                                        *)
(*   "api":   the RiskConfiguration component in                           *)
(*            src/src/components/AppSidebar.tsx (lines 77-730: loads the   *)
(*            configuration on mount, saveRules validates and POSTs).      *)
(* The state is the React state of the component (categories, activeTab,   *)
(* loading), the two network calls in flight, and what the component has   *)
(* emitted (toasts, the POST body, the localStorage entry).                *)
(***************************************************************************)
EXTENDS Integers, Sequences, FiniteSets, TLC

VARIABLES
    version,      \* which of the two components is mounted: "local" | "api"
    categories,   \* useState<RiskCategory[]>
    activeTab,    \* useState("financial")
    loading,      \* useState(false) (api version only)
    now,          \* the last value Date.now() returned (milliseconds)
    loadPc,       \* fetchConfigurations: "none" | "start" | "inflight" | "done"
    loadResult,   \* what the finished load was: "none" | "applied" | "threw"
    savePc,       \* saveConfigurations: "idle" | "inflight"
    postBody,     \* body of the POST in flight (<<>> when none in flight)
    posts,        \* number of POSTs issued to SaveConfig
    saveOutcomes, \* per finished POST: "ok" | "notok" | "threw"
    toasts,       \* the toasts shown, oldest first
    events,       \* number of user events handled so far
    storage       \* localStorage["riskCategories"] (NoItem when absent)

vars == <<version, categories, activeTab, loading, now, loadPc, loadResult,
          savePc, postBody, posts, saveOutcomes, toasts, events, storage>>

---------------------------------------------------------------------------
(* Bounds of the model *)

\* user events (clicks, selections, keystrokes) handled after the mount
MaxEvents == 4
\* milliseconds the clock may advance beyond its first reading
MaxClockAdvance == 1
\* the clock's reading when the component mounts (any value above the ids the
\* seeded state and the server use)
ClockStart == 1000

---------------------------------------------------------------------------
(* Program data *)

CategoryIds == <<"financial", "identity", "property", "contactability", "risk">>

CategoryNames ==
    [financial |-> "Financial & Credit", identity |-> "Identity & Verification",
     property |-> "Property & Stability", contactability |-> "Contactability & Behaviour",
     risk |-> "Risk Factors"]

F(n, t) == [name |-> n, dataType |-> t]

fieldOptionsLocal ==
    [financial |-> <<F("Loan Amount", "Number"), F("Outstanding Balance", "Number"),
                     F("Days Past Due (DPD)", "Number"), F("Repayment History Score", "Number"),
                     F("Previous Defaults (count)", "Number"),
                     F("Cost-to-Collect Estimate", "Number")>>,
     identity |-> <<F("Name Match %", "Percentage"), F("Address Match %", "Percentage"),
                    F("DOB Match", "Boolean"), F("National Insurance Number Match", "Boolean")>>,
     property |-> <<F("Years at Current Address", "Number"),
                    F("Property Owned (Yes/No)", "Boolean"), F("Property Value", "Number"),
                    F("Vehicle Owned (Yes/No)", "Boolean")>>,
     contactability |-> <<F("Contact Numbers Available (count)", "Number"),
                          F("Validated Phone Number (Yes/No)", "Boolean"),
                          F("Number of Contactable Channels", "Number"),
                          F("Agent Recovery Success Rate", "Percentage")>>,
     risk |-> <<F("Criminal Record Flag (Yes/No)", "Boolean"),
                F("Recent Missed Payments", "Number")>>]

G(n, t, r) == [name |-> n, dataType |-> t, riskFieldId |-> r]

fieldOptionsApi ==
    [financial |-> <<G("Loan Amount", "Number", 1), G("Outstanding Balance", "Number", 2),
                     G("Days Past Due (DPD)", "Number", 3),
                     G("Repayment History Score", "Number", 4),
                     G("Credit Score (Experian/Equifax)", "Number", 5),
                     G("Credit Utilisation Ratio", "Percentage", 6),
                     G("Previous Defaults (count)", "Number", 7),
                     G("Cost-to-Collect Estimate", "Number", 8)>>,
     identity |-> <<G("Name Match %", "Percentage", 9), G("Address Match %", "Percentage", 10),
                    G("DOB Match", "Boolean", 11),
                    G("National Insurance Number Match", "Boolean", 12),
                    G("Identity Match Score (Weighted)", "Number", 13)>>,
     property |-> <<G("Years at Current Address", "Number", 14),
                    G("Property Owned (Yes/No)", "Boolean", 15),
                    G("Property Value", "Number", 16),
                    G("Home Ownership Status", "Text", 17),
                    G("Vehicle Owned (Yes/No)", "Boolean", 18),
                    G("Stability Score", "Number", 19)>>,
     contactability |-> <<G("Contact Numbers Available (count)", "Number", 20),
                          G("Validated Phone Number (Yes/No)", "Boolean", 21),
                          G("Mobile Number Verified", "Boolean", 22),
                          G("Number of Contactable Channels", "Number", 23),
                          G("Agent Recovery Success Rate", "Percentage", 24)>>,
     risk |-> <<G("Criminal Record Flag (Yes/No)", "Boolean", 25),
                G("History of Defaults/CCJs", "Boolean", 26),
                G("Recent Missed Payments", "Number", 27),
                G("Same Name Cases Flag", "Boolean", 28),
                G("Loan Application Address Risk", "Text", 29)>>]

fieldOptions == IF version = "local" THEN fieldOptionsLocal ELSE fieldOptionsApi

---------------------------------------------------------------------------
(* Array helpers *)

RECURSIVE Flat(_)
\* Array.prototype.flat on a sequence of sequences
Flat(ss) == IF ss = <<>> THEN <<>> ELSE Head(ss) \o Flat(Tail(ss))

\* Object.values(fieldOptions).flat() (api version only): every field option, in
\* category order, each tagged with the category whose list holds it (the identity
\* of the object)
AllFieldOptions ==
    Flat([i \in 1..Len(CategoryIds) |->
            [j \in 1..Len(fieldOptionsApi[CategoryIds[i]]) |->
                [cat |-> CategoryIds[i], opt |-> fieldOptionsApi[CategoryIds[i]][j]]]])

\* Object.values(fieldOptions).flat().find(f => f.name === name): <<>> is undefined
FindFieldInfo(name) ==
    LET hits == {i \in 1..Len(AllFieldOptions) : AllFieldOptions[i].opt.name = name}
    IN  IF hits = {} THEN <<>>
        ELSE <<AllFieldOptions[CHOOSE i \in hits : \A j \in hits : i <= j]>>

\* fieldOptions[activeTab]?.find(f => f.name === value): <<>> is undefined
FindInCategory(cat, name) ==
    LET opts == fieldOptions[cat]
        hits == {i \in 1..Len(opts) : opts[i].name = name}
    IN  IF hits = {} THEN <<>> ELSE <<opts[CHOOSE i \in hits : \A j \in hits : i <= j]>>

---------------------------------------------------------------------------
(* Values *)

\* Number.prototype.toString / Date.now().toString(): the decimal string of n, kept
\* apart from the number n itself
NumToString(n) == [str |-> n]

\* Number(x) || 0 on a weight held as a number: 0 is falsy and yields the literal 0
NumberOrZero(w) == IF w = 0 THEN 0 ELSE w

\* Math.min
MathMin(a, b) == IF a <= b THEN a ELSE b

\* { ...c, [field]: value }
SetField(c, field, value) == (field :> value) @@ c

\* a toast: title, description and whether it has variant "destructive"
Toast(title, description, destructive) ==
    [title |-> title, description |-> description, destructive |-> destructive]

ToastLoadFailed == Toast("Error", "Failed to load configurations", TRUE)
ToastSaveFailed == Toast("Error", "Failed to save configurations", TRUE)
ToastSaveSuccess == Toast("Success", "Risk configurations updated successfully.", FALSE)
ToastInvalid ==
    Toast("Invalid Configuration",
          "All categories with conditions must have weights totaling 100%", TRUE)
ToastPreview == Toast("Rules Preview", "Opening rules preview...", FALSE)
ToastRulesSaved ==
    Toast("Rules Saved",
          "Scoring Configuration has been saved successfully. Dashboard will reflect these changes.",
          FALSE)

\* localStorage.getItem of a key never set
NoItem == [absent |-> TRUE]

---------------------------------------------------------------------------
(* The two initial states of useState<RiskCategory[]> *)

EmptyCategory(id) ==
    [id |-> id, name |-> CategoryNames[id], conditions |-> <<>>, totalWeight |-> 0,
     status |-> "incomplete"]

InitialCategoriesApi == [i \in 1..Len(CategoryIds) |-> EmptyCategory(CategoryIds[i])]

InitialCategoriesLocal ==
    [InitialCategoriesApi EXCEPT ![1] =
        [id |-> "financial", name |-> "Financial & Credit",
         conditions |->
            <<[id |-> NumToString(1), field |-> "Loan Amount", operator |-> ">",
               value |-> "5000", weight |-> 40, dataType |-> "Number"],
              [id |-> NumToString(2), field |-> "Outstanding Balance", operator |-> "=",
               value |-> "1500", weight |-> 15, dataType |-> "Number"]>>,
         totalWeight |-> 55, status |-> "incomplete"]]

\* categories.find((cat) => cat.id === activeTab)
ActiveCategory ==
    categories[CHOOSE i \in 1..Len(categories) : categories[i].id = activeTab]

---------------------------------------------------------------------------
(* The state updaters passed to setCategories *)

RECURSIVE SumWeights(_)
\* conditions.reduce((sum, c) => sum + c.weight, 0)
SumWeights(conds) ==
    IF conds = <<>> THEN 0 ELSE SumWeights(SubSeq(conds, 1, Len(conds) - 1)) + conds[Len(conds)].weight

RECURSIVE SumNumberWeights(_)
\* conditions.reduce((sum, c) => sum + (Number(c.weight) || 0), 0)
SumNumberWeights(conds) ==
    IF conds = <<>> THEN 0
    ELSE SumNumberWeights(SubSeq(conds, 1, Len(conds) - 1))
            + NumberOrZero(conds[Len(conds)].weight)

\* totalWeight === 100 ? "complete" : "incomplete"
StatusOf(totalWeight) == IF totalWeight = 100 THEN "complete" ELSE "incomplete"

\* NewCondition with the weight the Weight % input shows as its placeholder
NewConditionWeighted(t) ==
    [id |-> NumToString(t), field |-> "", operator |-> ">", value |-> "", weight |-> 40,
     dataType |-> "Number"]

\* the condition addCondition appends
NewCondition(t) ==
    [id |-> NumToString(t), field |-> "", operator |-> ">", value |-> "", weight |-> 0,
     dataType |-> "Number"]

\* AddConditionTo with the new condition put in front of the others
AddConditionFirst(prev, tab, newCondition) ==
    [i \in 1..Len(prev) |->
        IF prev[i].id = tab
        THEN [prev[i] EXCEPT !.conditions = <<newCondition>> \o @]
        ELSE prev[i]]

\* addCondition's updater: the new condition goes to the end of the active
\* category; totalWeight and status are carried over by the spread
AddConditionTo(prev, tab, newCondition) ==
    [i \in 1..Len(prev) |->
        IF prev[i].id = tab
        THEN [prev[i] EXCEPT !.conditions = Append(@, newCondition)]
        ELSE prev[i]]

\* RemoveConditionFrom with the status taken from the conditions before the removal
RemoveConditionStaleStatus(prev, tab, conditionId) ==
    [i \in 1..Len(prev) |->
        IF prev[i].id = tab
        THEN LET kept == SelectSeq(prev[i].conditions, LAMBDA c : c.id # conditionId)
             IN  [prev[i] EXCEPT !.conditions = kept,
                                 !.totalWeight = SumWeights(kept),
                                 !.status = StatusOf(SumWeights(prev[i].conditions))]
        ELSE prev[i]]

\* RemoveConditionFrom with the totalWeight and status of before the removal
RemoveConditionKeepTotal(prev, tab, conditionId) ==
    [i \in 1..Len(prev) |->
        IF prev[i].id = tab
        THEN LET kept == SelectSeq(prev[i].conditions, LAMBDA c : c.id # conditionId)
             IN  [prev[i] EXCEPT !.conditions = kept]
        ELSE prev[i]]

\* removeCondition's updater
RemoveConditionFrom(prev, tab, conditionId) ==
    [i \in 1..Len(prev) |->
        IF prev[i].id = tab
        THEN LET kept == SelectSeq(prev[i].conditions, LAMBDA c : c.id # conditionId)
             IN  [prev[i] EXCEPT !.conditions = kept,
                                 !.totalWeight = SumWeights(kept),
                                 !.status = StatusOf(SumWeights(kept))]
        ELSE prev[i]]

\* the weight updateCondition stores for a weight edit
CappedWeight(cat, conditionId, value) ==
    LET otherWeights ==
            SumNumberWeights(SelectSeq(cat.conditions, LAMBDA cond : cond.id # conditionId))
    IN  MathMin(value, 100 - otherWeights)

\* updateCondition's updater
UpdateConditionIn(prev, tab, conditionId, field, value) ==
    [i \in 1..Len(prev) |->
        IF prev[i].id # tab THEN prev[i]
        ELSE LET cat == prev[i]
                 newConditions ==
                    [k \in 1..Len(cat.conditions) |->
                        LET c == cat.conditions[k]
                        IN  IF c.id = conditionId
                            THEN IF field = "weight"
                                 THEN SetField(c, field, CappedWeight(cat, conditionId, value))
                                 ELSE SetField(c, field, value)
                            ELSE c]
                 totalWeight == SumNumberWeights(newConditions)
             IN  [cat EXCEPT !.conditions = newConditions,
                             !.totalWeight = totalWeight,
                             !.status = StatusOf(totalWeight)]]

---------------------------------------------------------------------------
(* fetchConfigurations: the transformation of the GET response *)

\* getOperatorsForDataType(dataType).map(op => op.value)
getOperatorsForDataType(dataType) ==
    CASE dataType = "Boolean" -> <<"=">>
      [] dataType = "Text" -> <<"=", "!=">>
      [] dataType \in {"Number", "Percentage"} -> <<">", "<", "=", ">=", "<=">>
      [] OTHER -> <<">", "<", "=">>

\* ItemBelongsTo without the test that the option is one of this category's
ItemBelongsToAny(item, categoryId) ==
    LET fieldInfo == FindFieldInfo(item.DisplayName)
    IN  fieldInfo # <<>>

\* the filter of fetchConfigurations: the first field option named item.DisplayName
\* exists and is one of the options of this category
ItemBelongsTo(item, categoryId) ==
    LET fieldInfo == FindFieldInfo(item.DisplayName)
    IN  fieldInfo # <<>> /\ fieldInfo[1].cat = categoryId

\* the map of fetchConfigurations
ConditionOfItem(item) ==
    LET fieldInfo == FindFieldInfo(item.DisplayName)
    IN  [id |-> NumToString(item.ConfigId), field |-> item.DisplayName,
         operator |-> item.Operator, value |-> item.Value,
         weight |-> item.WeightPercentage,
         dataType |-> IF fieldInfo # <<>> THEN fieldInfo[1].opt.dataType ELSE "Number",
         configId |-> item.ConfigId, riskFieldId |-> item.RiskFieldId]

\* TransformedCategories over the categories of the latest render, the conditions
\* the user has added since the mount kept behind the fetched ones
TransformedMerged(data) ==
    [i \in 1..Len(categories) |->
        LET category == categories[i]
            kept == SelectSeq(data, LAMBDA item : ItemBelongsTo(item, category.id))
            added == SelectSeq(category.conditions, LAMBDA c : "configId" \notin DOMAIN c)
            categoryConditions == [k \in 1..Len(kept) |-> ConditionOfItem(kept[k])] \o added
            totalWeight == SumWeights(categoryConditions)
        IN  [category EXCEPT !.conditions = categoryConditions,
                             !.totalWeight = totalWeight,
                             !.status = StatusOf(totalWeight)]]

\* categories.map(category => ...) over the categories of the render that ran the
\* mount effect, i.e. the initial state
TransformedCategories(data) ==
    [i \in 1..Len(InitialCategoriesApi) |->
        LET category == InitialCategoriesApi[i]
            kept == SelectSeq(data, LAMBDA item : ItemBelongsTo(item, category.id))
            categoryConditions == [k \in 1..Len(kept) |-> ConditionOfItem(kept[k])]
            totalWeight == SumWeights(categoryConditions)
        IN  [category EXCEPT !.conditions = categoryConditions,
                             !.totalWeight = totalWeight,
                             !.status = StatusOf(totalWeight)]]

\* whether the try block of fetchConfigurations throws on this reply: fetch rejects,
\* response.json() rejects (the body is not JSON), data.filter is not a function (the
\* JSON is not an array), or item.ConfigId.toString() is called on a missing ConfigId
\* of an item that passed a category's filter
LoadThrows(reply) ==
    \/ reply.kind \in {"rejected", "text", "object"}
    \/ /\ reply.kind = "array"
       /\ \E k \in 1..Len(reply.data) :
            /\ "ConfigId" \notin DOMAIN reply.data[k]
            /\ \E i \in 1..Len(CategoryIds) : ItemBelongsTo(reply.data[k], CategoryIds[i])

---------------------------------------------------------------------------
(* saveConfigurations: the POST body *)

\* condition.riskFieldId || Object.values(fieldOptions).flat().find(...)?.riskFieldId || 1
PayloadRiskFieldId(condition) ==
    LET fieldInfo == FindFieldInfo(condition.field)
    IN  IF "riskFieldId" \in DOMAIN condition /\ condition.riskFieldId # 0
        THEN condition.riskFieldId
        ELSE IF fieldInfo # <<>> /\ fieldInfo[1].opt.riskFieldId # 0
             THEN fieldInfo[1].opt.riskFieldId
             ELSE 1

PayloadEntry(condition) ==
    [RiskFieldId |-> PayloadRiskFieldId(condition), Operator |-> condition.operator,
     Value |-> condition.value, WeightPercentage |-> condition.weight]

\* AllConditions as a delta: only the conditions that were not loaded (no configId)
AllConditionsNewOnly(cats) ==
    Flat([i \in 1..Len(cats) |->
            LET fresh == SelectSeq(cats[i].conditions, LAMBDA c : "configId" \notin DOMAIN c)
            IN  [k \in 1..Len(fresh) |-> PayloadEntry(fresh[k])]])

\* categories.flatMap(category => category.conditions.map(...))
AllConditions(cats) ==
    Flat([i \in 1..Len(cats) |->
            [k \in 1..Len(cats[i].conditions) |-> PayloadEntry(cats[i].conditions[k])]])

\* JSON.stringify of numbers, strings and arrays and objects of them: the text that
\* parses back to x, kept apart from x itself
JsonStringify(x) == [json |-> x]

\* IncompleteCategories blocking only the categories above 100
IncompleteCategoriesOver(cats) ==
    LET categoriesWithConditions == SelectSeq(cats, LAMBDA cat : Len(cat.conditions) > 0)
    IN  SelectSeq(categoriesWithConditions, LAMBDA cat : cat.totalWeight > 100)

\* saveRules (api): the categories that block the save
IncompleteCategories(cats) ==
    LET categoriesWithConditions == SelectSeq(cats, LAMBDA cat : Len(cat.conditions) > 0)
    IN  SelectSeq(categoriesWithConditions, LAMBDA cat : cat.totalWeight # 100)

---------------------------------------------------------------------------
(* What the user and the server are taken to do *)

\* tabs the user clicks: the one with seeded conditions, the one with the fixed
\* operator, and one of the three others
TabInputs == {"financial", "identity", "property"}

\* fields the user picks in a field selector (when the active category offers them)
FieldInputs == {"Loan Amount", "Outstanding Balance", "DOB Match", "Home Ownership Status"}

\* operators the user picks in an operator selector (when it offers them)
OperatorInputs == {"=", "!="}

\* numbers the user types into a Weight % input: the input has type "number" and no
\* min or max, so it delivers any number, negative ones included
WeightInputs == {-50, 60, 150}

\* what the value control of a condition delivers: Yes/No in the identity tab,
\* "true"/"false" for a Boolean field, the typed text otherwise
ValueInputs(condition) ==
    IF activeTab = "identity" THEN {"Yes"}
    ELSE IF condition.dataType = "Boolean" THEN {"true"}
    ELSE {"5000"}

Item(configId, riskFieldId, operator, value, weight, displayName) ==
    [ConfigId |-> configId, RiskFieldId |-> riskFieldId, Operator |-> operator,
     Value |-> value, WeightPercentage |-> weight, DisplayName |-> displayName]

\* a configuration complete in two categories, its items interleaved
DataComplete ==
    <<Item(1, 1, ">", "5000", 60, "Loan Amount"), Item(2, 11, "=", "true", 100, "DOB Match"),
      Item(3, 2, "<", "10", 40, "Outstanding Balance")>>

\* a configuration with a field no category lists and a category above 100
DataOver ==
    <<Item(4, 30, "=", "x", 30, "Postcode Risk"), Item(5, 16, ">", "1", 120, "Property Value")>>

\* a list with an item whose ConfigId is null
DataNullId ==
    <<[RiskFieldId |-> 1, Operator |-> ">", Value |-> "1", WeightPercentage |-> 100,
       DisplayName |-> "Loan Amount"]>>

\* replies to GET GetConfig: no reply at all, or a status (ok or not) and a body
\* that is not JSON, JSON but no array, or an array of items
LoadReplies ==
    {[kind |-> "rejected", ok |-> FALSE, data |-> <<>>],
     [kind |-> "text", ok |-> FALSE, data |-> <<>>],
     [kind |-> "object", ok |-> FALSE, data |-> <<>>],
     [kind |-> "array", ok |-> TRUE, data |-> <<>>],
     [kind |-> "array", ok |-> TRUE, data |-> DataComplete],
     [kind |-> "array", ok |-> TRUE, data |-> DataOver],
     [kind |-> "array", ok |-> TRUE, data |-> DataNullId],
     [kind |-> "array", ok |-> FALSE, data |-> <<>>],
     [kind |-> "array", ok |-> FALSE, data |-> DataOver]}

\* replies to POST SaveConfig: response.ok, !response.ok, or fetch rejects
SaveReplies == {"ok", "notok", "rejected"}

---------------------------------------------------------------------------
(* Initial state *)

Init ==
    /\ version \in {"local", "api"}
    /\ categories = IF version = "local" THEN InitialCategoriesLocal ELSE InitialCategoriesApi
    /\ activeTab = "financial"
    /\ loading = FALSE
    /\ now = ClockStart
    /\ loadPc = IF version = "local" THEN "none" ELSE "start"
    /\ loadResult = "none"
    /\ savePc = "idle"
    /\ postBody = <<>>
    /\ posts = 0
    /\ saveOutcomes = <<>>
    /\ toasts = <<>>
    /\ events = 0
    /\ storage = NoItem

\* The mount effect runs before React handles any user event.
Mounted == loadPc # "start"

\* a user event is handled: the mount effect has run (React runs it before it
\* handles any user event), and the model follows the user for MaxEvents events
UserEvent ==
    /\ Mounted
    /\ events < MaxEvents
    /\ events' = events + 1

netVars == <<loading, loadPc, loadResult, savePc, postBody, posts, saveOutcomes>>

---------------------------------------------------------------------------
(* User events *)

\* onClick={() => setActiveTab(category.id)}
SetActiveTab(tab) ==
    /\ UserEvent
    /\ activeTab' = tab
    /\ UNCHANGED <<version, categories, now, netVars, toasts, storage>>

\* addCondition; Date.now() returns t, no earlier than its last reading
AddCondition(t) ==
    /\ UserEvent
    /\ t >= now
    /\ categories' = AddConditionTo(categories, activeTab, NewCondition(t))
    /\ now' = t
    /\ UNCHANGED <<version, activeTab, netVars, toasts, storage>>

\* removeCondition(condition.id), from the trash button of a rendered condition
RemoveCondition(k) ==
    /\ UserEvent
    /\ k \in 1..Len(ActiveCategory.conditions)
    /\ categories' = RemoveConditionFrom(categories, activeTab, ActiveCategory.conditions[k].id)
    /\ UNCHANGED <<version, activeTab, now, netVars, toasts, storage>>

\* the SelectItem of a field is disabled when another condition of the active
\* category has that field
isUsed(condition, fieldName) ==
    \E j \in 1..Len(ActiveCategory.conditions) :
        /\ ActiveCategory.conditions[j].field = fieldName
        /\ ActiveCategory.conditions[j].id # condition.id

\* onValueChange of the field selector of the k-th rendered condition
FieldSelected(prev, tab, condition, value) ==
    LET selectedField == FindInCategory(tab, value)
        c1 == UpdateConditionIn(prev, tab, condition.id, "field", value)
        c2 == UpdateConditionIn(c1, tab, condition.id, "dataType", selectedField[1].dataType)
        c3 == UpdateConditionIn(c2, tab, condition.id, "riskFieldId",
                                selectedField[1].riskFieldId)
    IN  IF selectedField = <<>> THEN c1
        ELSE IF version = "local" THEN c2
        ELSE c3

SelectField(k, value) ==
    /\ UserEvent
    /\ k \in 1..Len(ActiveCategory.conditions)
    /\ FindInCategory(activeTab, value) # <<>>
    /\ ~isUsed(ActiveCategory.conditions[k], value)
    /\ categories' = FieldSelected(categories, activeTab, ActiveCategory.conditions[k], value)
    /\ UNCHANGED <<version, activeTab, now, netVars, toasts, storage>>

\* the items the operator selector of a condition offers
OperatorItems(condition) ==
    IF activeTab = "identity" THEN <<"=">> ELSE getOperatorsForDataType(condition.dataType)

\* onValueChange of the operator selector, disabled in the identity tab
SelectOperator(k, value) ==
    /\ UserEvent
    /\ k \in 1..Len(ActiveCategory.conditions)
    /\ activeTab # "identity"
    /\ \E j \in 1..Len(OperatorItems(ActiveCategory.conditions[k])) :
            OperatorItems(ActiveCategory.conditions[k])[j] = value
    /\ categories' = UpdateConditionIn(categories, activeTab,
                                       ActiveCategory.conditions[k].id, "operator", value)
    /\ UNCHANGED <<version, activeTab, now, netVars, toasts, storage>>

\* onValueChange / onChange of the value control
EditValue(k, value) ==
    /\ UserEvent
    /\ k \in 1..Len(ActiveCategory.conditions)
    /\ value \in ValueInputs(ActiveCategory.conditions[k])
    /\ categories' = UpdateConditionIn(categories, activeTab,
                                       ActiveCategory.conditions[k].id, "value", value)
    /\ UNCHANGED <<version, activeTab, now, netVars, toasts, storage>>

\* onChange of the Weight % input: updateCondition(id, "weight", Number(e.target.value))
EditWeight(k, value) ==
    /\ UserEvent
    /\ k \in 1..Len(ActiveCategory.conditions)
    /\ categories' = UpdateConditionIn(categories, activeTab,
                                       ActiveCategory.conditions[k].id, "weight", value)
    /\ UNCHANGED <<version, activeTab, now, netVars, toasts, storage>>

\* previewRules
PreviewRules ==
    /\ UserEvent
    /\ toasts' = Append(toasts, ToastPreview)
    /\ UNCHANGED <<version, categories, activeTab, now, netVars, storage>>

---------------------------------------------------------------------------
(* Load and save *)

\* useEffect(() => { fetchConfigurations(); }, []): up to the await of fetch
FetchConfigurationsStart ==
    /\ loadPc = "start"
    /\ loading' = TRUE
    /\ loadPc' = "inflight"
    /\ UNCHANGED <<version, categories, activeTab, now, loadResult, savePc,
                   postBody, posts, saveOutcomes, toasts, events, storage>>

\* FetchConfigurationsFinish with a catch that also resets the categories
FetchConfigurationsFinishReset(reply) ==
    /\ loadPc = "inflight"
    /\ IF LoadThrows(reply)
       THEN /\ toasts' = Append(toasts, ToastLoadFailed)
            /\ loadResult' = "threw"
            /\ categories' = InitialCategoriesApi
       ELSE /\ categories' = TransformedCategories(reply.data)
            /\ loadResult' = "applied"
            /\ UNCHANGED toasts
    /\ loading' = FALSE
    /\ loadPc' = "done"
    /\ UNCHANGED <<version, activeTab, now, savePc, postBody, posts, saveOutcomes,
                   events, storage>>

\* fetchConfigurations after its awaits: the try block, the catch and the finally
FetchConfigurationsFinish(reply) ==
    /\ loadPc = "inflight"
    /\ IF LoadThrows(reply)
       THEN /\ toasts' = Append(toasts, ToastLoadFailed)
            /\ loadResult' = "threw"
            /\ UNCHANGED categories
       ELSE /\ categories' = TransformedCategories(reply.data)
            /\ loadResult' = "applied"
            /\ UNCHANGED toasts
    /\ loading' = FALSE
    /\ loadPc' = "done"
    /\ UNCHANGED <<version, activeTab, now, savePc, postBody, posts, saveOutcomes,
                   events, storage>>

\* saveRules of the local version
SaveRulesLocal ==
    /\ version = "local"
    /\ UserEvent
    /\ storage' = JsonStringify(categories)
    /\ toasts' = Append(toasts, ToastRulesSaved)
    /\ UNCHANGED <<version, categories, activeTab, now, netVars>>

\* The component of the local version is mounted again in a new session (the
\* page is loaded again): useState takes its initial values, which are the
\* literals of the source; no statement of the component reads localStorage,
\* so the stored item is left as it is and is not looked at.
Remount ==
    /\ version = "local"
    /\ UserEvent
    /\ categories' = InitialCategoriesLocal
    /\ activeTab' = "financial"
    /\ toasts' = <<>>
    /\ UNCHANGED <<version, now, netVars, storage>>

\* SaveRulesApi from a Save button that is never disabled
SaveRulesApiAlwaysEnabled ==
    /\ version = "api"
    /\ UserEvent
    /\ IF Len(IncompleteCategories(categories)) > 0
       THEN /\ toasts' = Append(toasts, ToastInvalid)
            /\ UNCHANGED <<loading, savePc, postBody, posts>>
       ELSE /\ loading' = TRUE
            /\ postBody' = JsonStringify(AllConditions(categories))
            /\ posts' = posts + 1
            /\ savePc' = "inflight"
            /\ UNCHANGED toasts
    /\ UNCHANGED <<version, categories, activeTab, now, loadPc, loadResult,
                   saveOutcomes, storage>>

\* saveRules of the api version, from the Save button (disabled={loading}), and
\* saveConfigurations up to the await of fetch
SaveRulesApi ==
    /\ version = "api"
    /\ UserEvent
    /\ ~loading
    /\ IF Len(IncompleteCategories(categories)) > 0
       THEN /\ toasts' = Append(toasts, ToastInvalid)
            /\ UNCHANGED <<loading, savePc, postBody, posts>>
       ELSE /\ loading' = TRUE
            /\ postBody' = JsonStringify(AllConditions(categories))
            /\ posts' = posts + 1
            /\ savePc' = "inflight"
            /\ UNCHANGED toasts
    /\ UNCHANGED <<version, categories, activeTab, now, loadPc, loadResult,
                   saveOutcomes, storage>>

\* SaveConfigurationsFinish without the check of response.ok: only a rejected fetch
\* reaches the catch
SaveConfigurationsFinishNoOkCheck(reply) ==
    /\ savePc = "inflight"
    /\ toasts' = Append(toasts, IF reply # "rejected" THEN ToastSaveSuccess
                                ELSE ToastSaveFailed)
    /\ saveOutcomes' = Append(saveOutcomes, reply)
    /\ loading' = FALSE
    /\ savePc' = "idle"
    /\ postBody' = <<>>
    /\ UNCHANGED <<version, categories, activeTab, now, loadPc, loadResult,
                   posts, events, storage>>

\* SaveConfigurationsFinish with setLoading(false) at the end of the try block
\* instead of in a finally
SaveConfigurationsFinishNoFinally(reply) ==
    /\ savePc = "inflight"
    /\ toasts' = Append(toasts, IF reply = "ok" THEN ToastSaveSuccess ELSE ToastSaveFailed)
    /\ saveOutcomes' = Append(saveOutcomes, reply)
    /\ loading' = IF reply = "ok" THEN FALSE ELSE loading
    /\ savePc' = "idle"
    /\ postBody' = <<>>
    /\ UNCHANGED <<version, categories, activeTab, now, loadPc, loadResult,
                   posts, events, storage>>

\* saveConfigurations after its await: the rest of the try block, the catch, the finally
SaveConfigurationsFinish(reply) ==
    /\ savePc = "inflight"
    /\ toasts' = Append(toasts, IF reply = "ok" THEN ToastSaveSuccess ELSE ToastSaveFailed)
    /\ saveOutcomes' = Append(saveOutcomes, reply)
    /\ loading' = FALSE
    /\ savePc' = "idle"
    /\ postBody' = <<>>
    /\ UNCHANGED <<version, categories, activeTab, now, loadPc, loadResult,
                   posts, events, storage>>

---------------------------------------------------------------------------
(* Specification *)

Next ==
    \/ \E tab \in TabInputs : SetActiveTab(tab)
    \/ \E t \in ClockStart..(ClockStart + MaxClockAdvance) : AddCondition(t)
    \/ \E k \in 1..Len(ActiveCategory.conditions) : RemoveCondition(k)
    \/ \E k \in 1..Len(ActiveCategory.conditions), value \in FieldInputs : SelectField(k, value)
    \/ \E k \in 1..Len(ActiveCategory.conditions), value \in OperatorInputs : SelectOperator(k, value)
    \/ \E k \in 1..Len(ActiveCategory.conditions), value \in {"Yes", "true", "5000"} : EditValue(k, value)
    \/ \E k \in 1..Len(ActiveCategory.conditions), value \in WeightInputs : EditWeight(k, value)
    \/ PreviewRules
    \/ FetchConfigurationsStart
    \/ \E reply \in LoadReplies : FetchConfigurationsFinish(reply)
    \/ SaveRulesLocal
    \/ Remount
    \/ SaveRulesApi
    \/ \E reply \in SaveReplies : SaveConfigurationsFinish(reply)

Spec == Init /\ [][Next]_vars

\* Every request is eventually answered or fails.
FairSpec ==
    /\ Spec
    /\ WF_vars(FetchConfigurationsStart)
    /\ WF_vars(\E reply \in LoadReplies : FetchConfigurationsFinish(reply))
    /\ WF_vars(\E reply \in SaveReplies : SaveConfigurationsFinish(reply))

---------------------------------------------------------------------------
(* Properties *)

RECURSIVE WeightSum(_)
\* the sum of the weights of a list of conditions
WeightSum(conds) == IF conds = <<>> THEN 0 ELSE Head(conds).weight + WeightSum(Tail(conds))

\* C1: in every reachable state of both versions every category has status
\* "complete" exactly when its totalWeight is 100, and "incomplete" otherwise.
C1_StatusIsTotal100 ==
    \A i \in 1..Len(categories) :
        /\ categories[i].status \in {"complete", "incomplete"}
        /\ categories[i].status = "complete" <=> categories[i].totalWeight = 100

\* C1 witness: after a load was applied and the user edited, one category is
\* complete and another holds conditions and is incomplete.
C1_Witness ==
    /\ loadResult = "applied"
    /\ events > 0
    /\ \E i, j \in 1..Len(categories) :
        /\ categories[i].status = "complete"
        /\ Len(categories[j].conditions) > 0
        /\ categories[j].status = "incomplete"

\* C2: in every reachable state of both versions every category's totalWeight is
\* the sum of the weights of the conditions it holds.
C2_TotalIsSum ==
    \A i \in 1..Len(categories) :
        categories[i].totalWeight = WeightSum(categories[i].conditions)

\* C2 witness: right after addCondition, a category with a non-zero total ends in
\* the new, still empty condition.
C2_Witness ==
    \E i \in 1..Len(categories) :
        LET conds == categories[i].conditions
        IN  /\ Len(conds) >= 2
            /\ categories[i].totalWeight # 0
            /\ conds[Len(conds)].field = ""
            /\ conds[Len(conds)].weight = 0
            /\ conds[Len(conds)].id = NumToString(now)

\* the conditions of a category other than the k-th
OtherConditions(conds, k) == SubSeq(conds, 1, k - 1) \o SubSeq(conds, k + 1, Len(conds))

\* the active category after the step
ActiveCategoryAfter ==
    categories'[CHOOSE i \in 1..Len(categories') : categories'[i].id = activeTab]

\* C3: a weight edit of a condition of the active category stores the smaller of
\* the requested weight and 100 minus the sum of the weights of the other
\* conditions of that category, and leaves the category's totalWeight at most 100.
C3_WeightEditCaps ==
    [][\A k \in 1..Len(ActiveCategory.conditions), v \in WeightInputs :
            EditWeight(k, v) =>
                /\ ActiveCategoryAfter.conditions[k].weight =
                     MathMin(v, 100 - WeightSum(OtherConditions(ActiveCategory.conditions, k)))
                /\ ActiveCategoryAfter.totalWeight <= 100]_vars

\* the ids of the conditions of every category are pairwise distinct
DistinctIds ==
    \A i \in 1..Len(categories) :
        \A j, k \in 1..Len(categories[i].conditions) :
            categories[i].conditions[j].id = categories[i].conditions[k].id => j = k

\* C4: in the local version every category's totalWeight is at most 100 in every
\* reachable state (stated for the states whose condition ids are distinct).
C4_LocalTotalAtMost100 ==
    (version = "local" /\ DistinctIds) =>
        \A i \in 1..Len(categories) : categories[i].totalWeight <= 100

\* every category that has a condition has totalWeight 100
AllNonEmptyComplete ==
    \A i \in 1..Len(categories) :
        Len(categories[i].conditions) > 0 => categories[i].totalWeight = 100

\* C5: in the api version a POST is issued only from a state in which every
\* category that has a condition totals 100, and a click on Save in such a state
\* issues one; a click in any other state shows the "Invalid Configuration" toast,
\* sends nothing and leaves categories and loading unchanged.
C5_SaveOnlyWhenComplete ==
    [][/\ posts' # posts => AllNonEmptyComplete
       /\ (SaveRulesApi /\ AllNonEmptyComplete) => (posts' = posts + 1 /\ toasts' = toasts)
       /\ (SaveRulesApi /\ ~AllNonEmptyComplete) =>
            /\ toasts' = Append(toasts, ToastInvalid)
            /\ posts' = posts /\ savePc' = savePc /\ postBody' = postBody
            /\ categories' = categories /\ loading' = loading]_vars

\* C5 witness: after a refused attempt, a POST is in flight from a state with a
\* complete category and an empty one.
C5_Witness ==
    /\ savePc = "inflight"
    /\ posts = 1
    /\ \E t \in 1..Len(toasts) : toasts[t] = ToastInvalid
    /\ \E i, j \in 1..Len(categories) :
        /\ Len(categories[i].conditions) > 0
        /\ Len(categories[j].conditions) = 0

\* every condition held, in category order and then condition order
HeldConditions == Flat([i \in 1..Len(categories) |-> categories[i].conditions])

\* C6: the body of a POST is the JSON of a list with exactly one entry
\* {RiskFieldId, Operator, Value, WeightPercentage} per condition held in any
\* category, in category order and then condition order, with the condition's
\* stored operator, value and weight.
C6_BodyIsFullList ==
    [][posts' # posts =>
        /\ postBody' = JsonStringify(postBody'.json)
        /\ Len(postBody'.json) = Len(HeldConditions)
        /\ \A k \in 1..Len(HeldConditions) :
            /\ DOMAIN postBody'.json[k] = {"RiskFieldId", "Operator", "Value", "WeightPercentage"}
            /\ postBody'.json[k].Operator = HeldConditions[k].operator
            /\ postBody'.json[k].Value = HeldConditions[k].value
            /\ postBody'.json[k].WeightPercentage = HeldConditions[k].weight]_vars

\* C6 witness: a POST in flight after a load was applied and a loaded condition
\* removed: the body lists the two loaded conditions that are left.
C6_Witness ==
    /\ savePc = "inflight"
    /\ loadResult = "applied"
    /\ postBody # <<>>
    /\ Len(postBody.json) = 2
    /\ postBody.json[1].WeightPercentage = 60
    /\ postBody.json[2].WeightPercentage = 40

\* the toasts of finished saves, oldest first
SaveToasts == SelectSeq(toasts, LAMBDA t : t \in {ToastSaveSuccess, ToastSaveFailed})

\* C7: every save attempt that passes validation sends exactly one POST, and exactly
\* one toast follows it: "Success" exactly when the response is ok, the destructive
\* "Failed to save configurations" otherwise; finishing the save leaves categories
\* unchanged and sends nothing.
C7_OnePostOneToast ==
    /\ [](/\ posts = Len(saveOutcomes) + (IF savePc = "inflight" THEN 1 ELSE 0)
          /\ Len(SaveToasts) = Len(saveOutcomes)
          /\ \A k \in 1..Len(saveOutcomes) :
                SaveToasts[k] = (IF saveOutcomes[k] = "ok" THEN ToastSaveSuccess
                                 ELSE ToastSaveFailed))
    /\ [][(SaveRulesApi /\ AllNonEmptyComplete) => posts' = posts + 1]_vars
    /\ [][(savePc = "inflight" /\ savePc' = "idle") =>
            /\ categories' = categories
            /\ posts' = posts
            /\ Len(toasts') = Len(toasts) + 1]_vars

\* C7 witness: two saves have finished, the first with an ok response, the second
\* without.
C7_Witness ==
    /\ savePc = "idle"
    /\ Len(saveOutcomes) = 2
    /\ saveOutcomes[1] = "ok"
    /\ saveOutcomes[2] # "ok"

\* the number of "Failed to load configurations" toasts shown
LoadFailedToasts == Len(SelectSeq(toasts, LAMBDA t : t = ToastLoadFailed))

\* C8: a load that throws leaves categories as they were, shows the "Failed to load
\* configurations" toast once, and the load is never started again.
C8_FailedLoadChangesNothing ==
    /\ [][\A reply \in LoadReplies :
            (FetchConfigurationsFinish(reply) /\ LoadThrows(reply)) =>
                /\ categories' = categories
                /\ toasts' = Append(toasts, ToastLoadFailed)]_vars
    /\ [][loadPc = "done" => loadPc' = "done"]_vars
    /\ [](loadResult = "threw" => LoadFailedToasts = 1)

\* C8 witness: the load threw after the user had edited, and the edit is still there.
C8_Witness ==
    /\ loadPc = "done"
    /\ loadResult = "threw"
    /\ categories # InitialCategoriesApi

\* C9: a load whose response carries a failure status shows the "Failed to load
\* configurations" toast and does not replace the categories.
C9_FailureStatusIsFailure ==
    [][\A reply \in LoadReplies :
        (FetchConfigurationsFinish(reply) /\ reply.kind # "rejected" /\ ~reply.ok) =>
            /\ categories' = categories
            /\ toasts' = Append(toasts, ToastLoadFailed)]_vars

\* C10: loading becomes true when a load or a save starts and false when it
\* finishes, however it finishes; so loading = TRUE leads to loading = FALSE.
C10_LoadingResets ==
    /\ [][((loadPc # "inflight" /\ loadPc' = "inflight") \/ posts' # posts) => loading']_vars
    /\ [][((loadPc = "inflight" /\ loadPc' = "done")
            \/ (savePc = "inflight" /\ savePc' = "idle")) => ~loading']_vars
    /\ (loading ~> ~loading)

\* C10 witness: loading is true while a save is in flight, after a save that was
\* not answered ok.
C10_Witness ==
    /\ loading
    /\ savePc = "inflight"
    /\ Len(saveOutcomes) = 1
    /\ saveOutcomes[1] # "ok"

---------------------------------------------------------------------------
(* C11..C20 *)

\* C11: in the local version, when the component is mounted again after
\* saveRules has stored the categories, the categories of the editor are the
\* categories that were stored last.
C11_SavedCategoriesPersist ==
    [][(Remount /\ storage # NoItem) => JsonStringify(categories') = storage]_vars

\* C12: no two conditions of one category have the same non-empty field.
C12_FieldsUniqueInCategory ==
    \A i \in 1..Len(categories) :
        \A k, l \in 1..Len(categories[i].conditions) :
            (k # l /\ categories[i].conditions[k].field # "")
                => categories[i].conditions[k].field # categories[i].conditions[l].field

\* C13: every condition of the identity category has the stored operator "=",
\* the operator that the editor shows for it and that saveRules stores or POSTs.
C13_IdentityOperatorIsEquals ==
    \A i \in 1..Len(categories) :
        categories[i].id = "identity" =>
            \A k \in 1..Len(categories[i].conditions) :
                categories[i].conditions[k].operator = "="

\* C14: removeCondition(id) on the k-th condition of the active category leaves
\* in that category exactly the conditions whose id is not id, unchanged and in
\* their previous order; the category's totalWeight is the sum of their weights
\* and its status is "complete" exactly when that sum is 100; every other
\* category, the active tab and the order of the categories are unchanged.
C14_RemoveConditionFrame ==
    [][\A k \in 1..Len(ActiveCategory.conditions) :
          RemoveCondition(k) =>
            LET id == ActiveCategory.conditions[k].id
                remaining == SelectSeq(ActiveCategory.conditions, LAMBDA c : c.id # id)
            IN  /\ Len(remaining) < Len(ActiveCategory.conditions)
                /\ ActiveCategoryAfter.conditions = remaining
                /\ ActiveCategoryAfter.totalWeight = WeightSum(remaining)
                /\ ActiveCategoryAfter.status =
                       (IF WeightSum(remaining) = 100 THEN "complete" ELSE "incomplete")
                /\ ActiveCategoryAfter.name = ActiveCategory.name
                /\ activeTab' = activeTab
                /\ Len(categories') = Len(categories)
                /\ \A i \in 1..Len(categories) :
                      /\ categories'[i].id = categories[i].id
                      /\ categories[i].id # activeTab => categories'[i] = categories[i]]_vars

\* C14 witness: the first seeded condition of the local version has been removed;
\* the second is what remains, and the total is its weight.
C14_Witness ==
    /\ version = "local"
    /\ categories[1].conditions = <<InitialCategoriesLocal[1].conditions[2]>>
    /\ categories[1].totalWeight = 15
    /\ categories[1].status = "incomplete"

\* C15: addCondition puts exactly one condition after the conditions the active
\* category had, with empty field, operator ">", empty value, weight 0 and
\* dataType "Number"; the earlier conditions keep their content and order, the
\* category's totalWeight and status are unchanged, and so is every other
\* category.
C15_AddConditionAppendsDefault ==
    [][\A t \in ClockStart..(ClockStart + MaxClockAdvance) :
          AddCondition(t) =>
            LET before == ActiveCategory.conditions
                after == ActiveCategoryAfter.conditions
            IN  /\ Len(after) = Len(before) + 1
                /\ SubSeq(after, 1, Len(before)) = before
                /\ after[Len(after)].field = ""
                /\ after[Len(after)].operator = ">"
                /\ after[Len(after)].value = ""
                /\ after[Len(after)].weight = 0
                /\ after[Len(after)].dataType = "Number"
                /\ ActiveCategoryAfter.totalWeight = ActiveCategory.totalWeight
                /\ ActiveCategoryAfter.status = ActiveCategory.status
                /\ \A i \in 1..Len(categories) :
                      categories[i].id # activeTab => categories'[i] = categories[i]]_vars

\* C15 witness: in the api version a condition has been added behind the two
\* loaded financial conditions, whose total of 100 and status are still there.
C15_Witness ==
    /\ version = "api"
    /\ Len(categories[1].conditions) = 3
    /\ categories[1].conditions[1].field = "Loan Amount"
    /\ categories[1].conditions[2].field = "Outstanding Balance"
    /\ categories[1].conditions[3].field = ""
    /\ categories[1].conditions[3].weight = 0
    /\ categories[1].totalWeight = 100
    /\ categories[1].status = "complete"

\* the names of the fields that fieldOptions lists for a category
FieldNamesOf(categoryId) ==
    {fieldOptionsApi[categoryId][j].name : j \in 1..Len(fieldOptionsApi[categoryId])}

\* C16: after a load that reaches setCategories, the conditions of each category
\* are the fetched items whose DisplayName is one of the category's field names,
\* in the order of the response, each with id = ConfigId as a string and with the
\* item's operator, value, weight, configId and riskFieldId; an item whose
\* DisplayName no category lists is in no category, no item is in two
\* categories, and the five categories keep their ids, names and order.
C16_LoadGroupsItemsByField ==
    [][\A reply \in LoadReplies :
          (FetchConfigurationsFinish(reply) /\ ~LoadThrows(reply)) =>
            /\ Len(categories') = Len(CategoryIds)
            /\ \A i \in 1..Len(CategoryIds) :
                  LET mine == SelectSeq(reply.data,
                                  LAMBDA item : item.DisplayName \in FieldNamesOf(CategoryIds[i]))
                      conds == categories'[i].conditions
                  IN  /\ categories'[i].id = CategoryIds[i]
                      /\ categories'[i].name = CategoryNames[CategoryIds[i]]
                      /\ Len(conds) = Len(mine)
                      /\ \A k \in 1..Len(mine) :
                            /\ conds[k].id = NumToString(mine[k].ConfigId)
                            /\ conds[k].field = mine[k].DisplayName
                            /\ conds[k].operator = mine[k].Operator
                            /\ conds[k].value = mine[k].Value
                            /\ conds[k].weight = mine[k].WeightPercentage
                            /\ conds[k].configId = mine[k].ConfigId
                            /\ conds[k].riskFieldId = mine[k].RiskFieldId
            /\ \A n \in 1..Len(reply.data) :
                  LET holders == {i \in 1..Len(categories') :
                                     \E k \in 1..Len(categories'[i].conditions) :
                                         categories'[i].conditions[k].field
                                             = reply.data[n].DisplayName}
                  IN  /\ Cardinality(holders) <= 1
                      /\ (\A c \in DOMAIN fieldOptionsApi :
                             reply.data[n].DisplayName \notin FieldNamesOf(c))
                            => holders = {}]_vars

\* C16 witness: the load of the three-item response has completed and nothing
\* else has happened: the financial category holds the first and the third item
\* in that order, the identity category the second.
C16_Witness ==
    /\ loadResult = "applied"
    /\ events = 0
    /\ Len(categories[1].conditions) = 2
    /\ categories[1].conditions[1].id = NumToString(1)
    /\ categories[1].conditions[2].id = NumToString(3)
    /\ Len(categories[2].conditions) = 1
    /\ categories[2].conditions[1].configId = 2

\* C17: the stored operator of every condition is one of the operators that
\* getOperatorsForDataType lists for the condition's stored dataType.
C17_OperatorFitsDataType ==
    \A i \in 1..Len(categories) :
        \A k \in 1..Len(categories[i].conditions) :
            LET condition == categories[i].conditions[k]
                offered == getOperatorsForDataType(condition.dataType)
            IN  \E j \in 1..Len(offered) : offered[j] = condition.operator

\* C18: within each category the ids of the conditions are pairwise distinct.
C18_IdsPairwiseDistinct ==
    \A i \in 1..Len(categories) :
        \A k, l \in 1..Len(categories[i].conditions) :
            k # l => categories[i].conditions[k].id # categories[i].conditions[l].id

\* C19: while the load is in flight the user can still add a condition, and a
\* load that reaches setCategories leaves only conditions that come from the
\* response, with the field, operator, value and weight of their item: whatever
\* was added or edited since the mount is gone.
C19_LoadReplacesEdits ==
    /\ []((loadPc = "inflight" /\ events < MaxEvents) =>
              ENABLED (\E t \in ClockStart..(ClockStart + MaxClockAdvance) : AddCondition(t)))
    /\ [][\A reply \in LoadReplies :
             (FetchConfigurationsFinish(reply) /\ ~LoadThrows(reply)) =>
                \A i \in 1..Len(categories') :
                    \A k \in 1..Len(categories'[i].conditions) :
                        LET condition == categories'[i].conditions[k]
                        IN  /\ "configId" \in DOMAIN condition
                            /\ \E n \in 1..Len(reply.data) :
                                  /\ "ConfigId" \in DOMAIN reply.data[n]
                                  /\ reply.data[n].ConfigId = condition.configId
                                  /\ reply.data[n].DisplayName = condition.field
                                  /\ reply.data[n].Operator = condition.operator
                                  /\ reply.data[n].Value = condition.value
                                  /\ reply.data[n].WeightPercentage = condition.weight]_vars

\* C19 witness: the one user event so far was an addCondition (the clock reading
\* moved) and the load has been applied since: no condition without configId is
\* left, so the added condition is gone.
C19_Witness ==
    /\ loadResult = "applied"
    /\ events = 1
    /\ now # ClockStart
    /\ \E i \in 1..Len(categories) : Len(categories[i].conditions) > 0
    /\ \A i \in 1..Len(categories) :
          \A k \in 1..Len(categories[i].conditions) :
              "configId" \in DOMAIN categories[i].conditions[k]

\* C20: every entry of the body of a POST carries the riskFieldId that
\* fieldOptions lists for the field name of its condition.
C20_PayloadFieldIdIsOfShownField ==
    [][posts' # posts =>
        \A k \in 1..Len(HeldConditions) :
            \E c \in DOMAIN fieldOptionsApi :
                \E j \in 1..Len(fieldOptionsApi[c]) :
                    /\ fieldOptionsApi[c][j].name = HeldConditions[k].field
                    /\ fieldOptionsApi[c][j].riskFieldId = postBody'.json[k].RiskFieldId]_vars

---------------------------------------------------------------------------
(* C21 *)

\* the requests that have been issued and not yet answered: the load between
\* its fetch and its completion, and every POST without an outcome
RequestsInFlight ==
    (IF loadPc = "inflight" THEN 1 ELSE 0) + (posts - Len(saveOutcomes))

\* C21: in the api version at most one request is in flight; the load is issued
\* once, by the mount effect, and never again; while a request is in flight
\* loading is true, and while loading is true the Save button does nothing, so a
\* POST is issued only when no request is in flight.
C21_OneRequestInFlight ==
    /\ [](RequestsInFlight <= 1)
    /\ [](RequestsInFlight = 1 => loading)
    /\ [](loading => ~ENABLED SaveRulesApi)
    /\ [][loadPc' = "inflight" => (loadPc = "inflight" \/ (loadPc = "start" /\ events = 0))]_vars
    /\ [][loadPc = "done" => loadPc' = "done"]_vars
    /\ [][posts' # posts =>
            (posts' = posts + 1 /\ RequestsInFlight = 0 /\ loadPc = "done")]_vars

\* C21 witness: a second save is in flight; the load and the first save have
\* finished before it started.
C21_Witness ==
    /\ version = "api"
    /\ loadPc = "done"
    /\ posts = 2
    /\ Len(saveOutcomes) = 1
    /\ savePc = "inflight"
    /\ loading

====
